---- MODULE Spec2Model ----
(***************************************************************************)
(* PilotPro identity store (regi.py): UserManager, SessionManager,         *)
(* CryptoHandler and the App menu controller, over the tables users,       *)
(* encryption_keys and sessions of DB/users.db.                            *)
(*                                                                         *)
(* The tables live in a file that outlives the process: every table is     *)
(* made with CREATE TABLE IF NOT EXISTS (regi.py:159, 195, 339), so the    *)
(* state after App() is constructed holds whatever rows the file already   *)
(* held.  Init therefore ranges over the stores a completed registration   *)
(* writes (a users row, its encryption_keys row wrapped under KEY).        *)
(*                                                                         *)
(* Every method is one action.  A Python exception that leaves a method    *)
(* is an outcome of the action: it is recorded in last.exc and the object  *)
(* keeps the state it had when the exception was raised.                   *)
(*                                                                         *)
(* The chat transcript (chat_db.py) is the table chat_sessions of          *)
(* DB/chat.db behind one ChatDatabase object, with the character-shift     *)
(* functions encrypt and decrypt; a str is the sequence of its code        *)
(* points.  ContextManager (chat_utils.py) reads that table through a      *)
(* ChatDatabase of its own and extends custom_context.                     *)
(*                                                                         *)
(* register_user is also modelled step by step (reg), for two callers on   *)
(* one users.db.                                                           *)
(***************************************************************************)
EXTENDS Integers, Sequences, FiniteSets, TLC

VARIABLES users,              \* table users: username -> row
          encryption_keys,    \* table encryption_keys: username -> wrapped key
          sessions,           \* table sessions: session_id -> row
          uuids,              \* how many session ids uuid4 has handed out
          issued,             \* history: session_id -> its create_session call
          now,                \* datetime.now(), in ticks
          current_session,    \* App.current_session
          current_user_role,  \* App.current_user_role
          last,               \* the last call: its arguments and its outcome
          conn,               \* ChatDatabase.conn: TRUE when a connection is held
          chat_sessions,      \* table chat_sessions of DB/chat.db, in id order
          text,               \* the value encrypt and decrypt are handed
          custom_context,     \* ContextManager.custom_context, after the
                              \* sentence __init__ starts it with
          decrypt_calls,      \* history: the texts of the decrypt(...) calls
                              \* the last read of chat_sessions came to
          reg                 \* the register_user calls in progress

vars == <<users, encryption_keys, sessions, uuids, issued, now,
          current_session, current_user_role, last,
          conn, chat_sessions, text,
         custom_context, decrypt_calls, reg>>

ids == <<uuids, issued>>
db == <<users, encryption_keys, sessions, ids>>
app == <<current_session, current_user_role>>
chat == <<conn, chat_sessions, text>>
ctx == <<custom_context, decrypt_calls>>

(* ------------------------------ bounds --------------------------------- *)
\* number of session ids uuid4 hands out in one run
MaxSessions == 2
\* clock resolution: ticks in one second (datetime.now() is finer than 1 s)
TicksPerSecond == 3
\* how many ticks past one session duration the clock runs
MaxSlack == 2
\* rows the table chat_sessions may hold
MaxRows == 2
\* characters of a string handed to encrypt or decrypt
MaxLen == 2

(* ----------------------------- constants ------------------------------- *)
SESSION_DURATION == 30
SecondsPerMinute == 60
ROLES == {"general", "admin"}
KEY == "MK"

\* Python's None where the other values are strings
NONE == "None"
\* Python's None where the other values are tuples
NoTuple == <<>>
\* Python's None where the other values are Fernet tokens
NoToken == [pt |-> "None", key |-> "None"]

(* ------------------------------ inputs --------------------------------- *)
Usernames == {"alice", "bob"}
Passwords == {"pw1", "pilotpro"}
\* the (full_name, email) pairs people register with
People == {[full_name |-> "Alice B Smith", email |-> "b@ve7ltx.ca"],
           [full_name |-> "Bob Jones", email |-> "a@x.com"]}
RoleInputs == {"general", "admin", "guest"}
\* the keys Fernet.generate_key() returned for the stored rows, and the one
\* it returns next
StoredKeyOf(u) == IF u = "alice" THEN "k1" ELSE "k2"
FreshKeys == {"k3"}
SessionIds == 1..MaxSessions

(* ------------------------------- time ---------------------------------- *)
\* timedelta(minutes=SESSION_DURATION) in clock ticks
SessionTicks == SESSION_DURATION * SecondsPerMinute * TicksPerSecond
MaxNow == SessionTicks + MaxSlack
\* strftime('%Y-%m-%d %H:%M:%S') keeps whole seconds and drops the fraction
strftime(t) == t \div TicksPerSecond
\* strptime of that text: a datetime with no fraction of a second
strptime(s) == s * TicksPerSecond

(* ------------------------------ bcrypt --------------------------------- *)
hashpw(password) == [alg |-> "bcrypt", pw |-> password]
\* a comparison that accepts every password
checkpw_any(password, hashed) == TRUE
checkpw(password, hashed) == hashed.pw = password

(* ------------------------------ Fernet --------------------------------- *)
\* a token is readable with the key that made it and with no other
FernetEncrypt(data, key) == [pt |-> data, key |-> key]
FernetOk(token, key) == key # NONE /\ token.key = key

(* --------------------------- CryptoHandler ----------------------------- *)
\* self.crypto_handler.generate_user_key(): the method is a staticmethod
\* declared with a parameter (self) and is called with none, so the call
\* raises TypeError before its body runs; fresh is the key
\* Fernet.generate_key() would have returned
generate_user_key(fresh) == [exc |-> "TypeError", key |-> NONE]

encrypt_user_key(user_key, main_key) == FernetEncrypt(user_key, main_key)

\* any failure inside is caught and None returned
decrypt_user_key(encrypted_user_key, main_key) ==
    IF FernetOk(encrypted_user_key, main_key) THEN encrypted_user_key.pt ELSE NONE

encrypt_detail_with_key(detail, user_key) == FernetEncrypt(detail, user_key)

decrypt_detail_with_key(encrypted_detail, user_key) ==
    IF FernetOk(encrypted_detail, user_key) THEN encrypted_detail.pt ELSE NONE

(* ---------------------------- RegiDatabase ----------------------------- *)
\* INSERT OR REPLACE INTO encryption_keys
store_encrypted_user_key(keys, username, encrypted_user_key) ==
    [u \in DOMAIN keys \cup {username} |->
        IF u = username THEN encrypted_user_key ELSE keys[u]]

fetch_encrypted_user_key(keys, username) ==
    IF username \in DOMAIN keys THEN keys[username] ELSE NoToken

(* ------------------------- the result of a call ------------------------ *)
\* op(args) returned ret or raised exc
Call(op, args, ret, exc) == [op |-> op, a |-> args, ret |-> ret, exc |-> exc]
NoExc == ""

(* ----------------------------- UserManager ----------------------------- *)
\* the users row register_user inserts
UserRow(password, full_name, email, role, user_key) ==
    [password |-> hashpw(password),
     role |-> role,
     encrypted_full_name |-> encrypt_detail_with_key(full_name, user_key),
     encrypted_email |-> encrypt_detail_with_key(email, user_key)]

\* the outcome of register_user: what it returns or raises and the tables
\* it leaves
RegisterOutcome(us, keys, username, password, full_name, email, role, fresh) ==
    LET k == generate_user_key(fresh) IN
    IF role \notin ROLES
    THEN [ret |-> NONE, exc |-> "ValueError", users |-> us, keys |-> keys]
    ELSE IF k.exc # NoExc
    THEN [ret |-> NONE, exc |-> k.exc, users |-> us, keys |-> keys]
    ELSE IF username \in DOMAIN us
    THEN \* INSERT INTO users: IntegrityError on the primary key
         [ret |-> FALSE, exc |-> NoExc, users |-> us, keys |-> keys]
    ELSE [ret |-> TRUE, exc |-> NoExc,
          users |-> [u \in DOMAIN us \cup {username} |->
                       IF u = username
                       THEN UserRow(password, full_name, email, role, k.key)
                       ELSE us[u]],
          keys |-> store_encrypted_user_key(keys, username,
                                            encrypt_user_key(k.key, KEY))]

register_user(username, password, full_name, email, role) ==
    \E fresh \in FreshKeys :
      LET o == RegisterOutcome(users, encryption_keys, username, password,
                               full_name, email, role, fresh) IN
      /\ users' = o.users
      /\ encryption_keys' = o.keys
      /\ last' = Call("register_user", <<username, role>>, o.ret, o.exc)
      /\ UNCHANGED <<sessions, ids, now, app, chat, ctx, reg>>

\* what authenticate_user returns: NoTuple for None, else (full_name, role)
AuthResult(us, keys, username, password) ==
    LET encrypted_user_key == fetch_encrypted_user_key(keys, username) IN
    IF encrypted_user_key = NoToken THEN NoTuple
    ELSE LET user_key == decrypt_user_key(encrypted_user_key, KEY) IN
         IF username \in DOMAIN us /\ checkpw(password, us[username].password)
         THEN <<decrypt_detail_with_key(us[username].encrypted_full_name, user_key),
                us[username].role>>
         ELSE NoTuple

authenticate_user(username, password) ==
    /\ last' = Call("authenticate_user", <<username, password>>,
                    AuthResult(users, encryption_keys, username, password), NoExc)
    /\ UNCHANGED <<db, now, app, chat, ctx, reg>>

\* UPDATE users SET role = ? WHERE username = ?
SetRole(us, username, new_role) ==
    [u \in DOMAIN us |-> IF u = username THEN [us[u] EXCEPT !.role = new_role] ELSE us[u]]

set_user_role(username, new_role) ==
    /\ users' = SetRole(users, username, new_role)
    /\ last' = Call("set_user_role", <<username, new_role>>, NONE, NoExc)
    /\ UNCHANGED <<encryption_keys, sessions, ids, now, app, chat, ctx, reg>>

\* a delete that removes one session of the user, the oldest, and no more
DeleteSessionsOf_oldest(ss, username) ==
    LET mine == {t \in DOMAIN ss : ss[t].username = username} IN
    [s \in {t \in DOMAIN ss : t \notin mine \/ \E m \in mine : m < t} |-> ss[s]]

\* DELETE FROM sessions WHERE username = ?
DeleteSessionsOf(ss, username) ==
    [s \in {t \in DOMAIN ss : ss[t].username # username} |-> ss[s]]

\* DELETE FROM users WHERE username = ?
DeleteUserRow(us, username) == [u \in DOMAIN us \ {username} |-> us[u]]

\* the encryption_keys table after delete_user: no statement touches it
KeysAfterDelete(keys, username) == keys

delete_user(username) ==
    /\ sessions' = DeleteSessionsOf(sessions, username)
    /\ users' = DeleteUserRow(users, username)
    /\ encryption_keys' = KeysAfterDelete(encryption_keys, username)
    /\ last' = Call("delete_user", <<username>>, NONE, NoExc)
    /\ UNCHANGED <<ids, now, app, chat, ctx, reg>>

\* UPDATE users SET password = ? WHERE username = ?
ResetPassword(us, username, new_password) ==
    [u \in DOMAIN us |->
        IF u = username THEN [us[u] EXCEPT !.password = hashpw(new_password)] ELSE us[u]]

reset_password(username, new_password) ==
    /\ users' = ResetPassword(users, username, new_password)
    /\ last' = Call("reset_password", <<username, new_password>>, NONE, NoExc)
    /\ UNCHANGED <<encryption_keys, sessions, ids, now, app, chat, ctx, reg>>

default_password == "pilotpro"

\* register_user's exception leaves add_user_by_admin before its print
add_user_by_admin(username, full_name, email, role) ==
    \E fresh \in FreshKeys :
      LET o == RegisterOutcome(users, encryption_keys, username, default_password,
                               full_name, email, role, fresh) IN
      /\ users' = o.users
      /\ encryption_keys' = o.keys
      /\ last' = Call("add_user_by_admin", <<username, role>>, NONE, o.exc)
      /\ UNCHANGED <<sessions, ids, now, app, chat, ctx, reg>>

(* ---------------------------- SessionManager --------------------------- *)
\* the expiration text create_session stores, in whole seconds
Expiration(t) == strftime(t + SessionTicks)

create_session(username, role) ==
    /\ uuids < MaxSessions
    /\ uuids' = uuids + 1
    /\ issued' = [s \in DOMAIN issued \cup {uuids + 1} |->
                    IF s = uuids + 1
                    THEN [at |-> now, username |-> username, role |-> role]
                    ELSE issued[s]]
    /\ sessions' = [s \in DOMAIN sessions \cup {uuids + 1} |->
                      IF s = uuids + 1
                      THEN [username |-> username, role |-> role,
                            expiration |-> Expiration(now)]
                      ELSE sessions[s]]
    /\ last' = Call("create_session", <<username, role>>, <<uuids + 1, username>>, NoExc)
    /\ UNCHANGED <<users, encryption_keys, now, app, chat, ctx, reg>>

\* a DELETE that empties the table when no row has the id
DeleteSession_orAll(ss, session_id) ==
    IF session_id \in DOMAIN ss
    THEN [s \in DOMAIN ss \ {session_id} |-> ss[s]]
    ELSE <<>>

\* DELETE FROM sessions WHERE session_id = ?
DeleteSession(ss, session_id) == [s \in DOMAIN ss \ {session_id} |-> ss[s]]

\* datetime.now() > expiration
Expired(ss, session_id, t) == t > strptime(ss[session_id].expiration)

\* a validate_session that reports the role the user holds now
ValidateResult_current(ss, session_id, t) ==
    IF session_id \in DOMAIN ss
    THEN IF Expired(ss, session_id, t) THEN <<FALSE, NONE>>
         ELSE <<TRUE, IF ss[session_id].username \in DOMAIN users
                      THEN users[ss[session_id].username].role
                      ELSE ss[session_id].role>>
    ELSE <<FALSE, NONE>>

ValidateResult(ss, session_id, t) ==
    IF session_id \in DOMAIN ss
    THEN IF Expired(ss, session_id, t) THEN <<FALSE, NONE>>
         ELSE <<TRUE, ss[session_id].role>>
    ELSE <<FALSE, NONE>>

\* a validate_session that reports expiry and leaves the row
ValidateEffect_keep(ss, session_id, t) == ss

\* the sessions table validate_session leaves
ValidateEffect(ss, session_id, t) ==
    IF session_id \in DOMAIN ss /\ Expired(ss, session_id, t)
    THEN DeleteSession(ss, session_id)
    ELSE ss

validate_session(session_id) ==
    /\ sessions' = ValidateEffect(sessions, session_id, now)
    /\ last' = Call("validate_session", <<session_id>>,
                    ValidateResult(sessions, session_id, now), NoExc)
    /\ UNCHANGED <<users, encryption_keys, ids, now, app, chat, ctx, reg>>

terminate_session(session_id) ==
    /\ sessions' = DeleteSession(sessions, session_id)
    /\ last' = Call("terminate_session", <<session_id>>, NONE, NoExc)
    /\ UNCHANGED <<users, encryption_keys, ids, now, app, chat, ctx, reg>>

(* --------------------------------- App --------------------------------- *)
Choices == {"r", "l", "x", "z", "s", "d", "a", "m", "p", "q"}
Confirms == {"y", "n"}

\* not self.current_session
LoggedOut == current_session = NoTuple

\* a menu that offers the admin entries to every logged-in user
Dispatch_anyRole(choice) ==
    IF LoggedOut
    THEN CASE choice = "r" -> "register"
           [] choice = "l" -> "login"
           [] choice = "x" -> "exit_app"
           [] OTHER -> "invalid"
    ELSE CASE choice = "z" -> "logout"
           [] choice = "x" -> "exit_app"
           [] choice = "s" -> "start_chat"
           [] choice = "d" -> "delete_user"
           [] choice = "a" -> "admin_add_user"
           [] choice = "m" -> "modify_user_role"
           [] choice = "p" -> "change_password"
           [] OTHER -> "invalid"

\* the method handle_choice hands the choice to
Dispatch(choice) ==
    IF LoggedOut
    THEN CASE choice = "r" -> "register"
           [] choice = "l" -> "login"
           [] choice = "x" -> "exit_app"
           [] OTHER -> "invalid"
    ELSE CASE choice = "z" -> "logout"
           [] choice = "x" -> "exit_app"
           [] choice = "s" -> "start_chat"
           [] OTHER ->
                IF current_user_role = "admin"
                THEN CASE choice = "d" -> "delete_user"
                       [] choice = "a" -> "admin_add_user"
                       [] choice = "m" -> "modify_user_role"
                       [] OTHER -> "invalid"
                ELSE IF choice = "p" THEN "change_password" ELSE "invalid"

\* if 've7ltx' in email
RegisterRole(email) == IF email = "b@ve7ltx.ca" THEN "admin" ELSE "general"

\* App.register: the loop ends with the attempt that does not return False
App_register(choice, username, password, person) ==
    \E fresh \in FreshKeys :
      LET o == RegisterOutcome(users, encryption_keys, username, password,
                               person.full_name, person.email,
                               RegisterRole(person.email), fresh) IN
      /\ Dispatch(choice) = "register"
      /\ (IF o.exc = NoExc THEN o.ret = TRUE ELSE TRUE)
      /\ users' = o.users
      /\ encryption_keys' = o.keys
      /\ last' = Call("handle_choice", <<choice, username>>, "register", o.exc)
      /\ UNCHANGED <<sessions, ids, now, app, chat, ctx, reg>>

\* db.insert_message(username, "User logged in", "system"): insert_message
\* has a fourth required parameter, response, so the call raises TypeError
\* before any row is written
LogLoginEvent == "TypeError"

\* App.login: the session is created and current_session set before the
\* login event is logged
App_login(choice, username, password) ==
    LET user == AuthResult(users, encryption_keys, username, password) IN
    /\ Dispatch(choice) = "login"
    /\ IF user # NoTuple
       THEN /\ uuids < MaxSessions
            /\ current_user_role' = user[2]
            /\ uuids' = uuids + 1
            /\ issued' = [s \in DOMAIN issued \cup {uuids + 1} |->
                            IF s = uuids + 1
                            THEN [at |-> now, username |-> username,
                                  role |-> user[2]]
                            ELSE issued[s]]
            /\ sessions' = [s \in DOMAIN sessions \cup {uuids + 1} |->
                              IF s = uuids + 1
                              THEN [username |-> username, role |-> user[2],
                                    expiration |-> Expiration(now)]
                              ELSE sessions[s]]
            /\ current_session' = <<uuids + 1, username>>
            /\ last' = Call("handle_choice", <<choice, username>>, "login",
                            LogLoginEvent)
       ELSE /\ last' = Call("handle_choice", <<choice, username>>, "login", NoExc)
            /\ UNCHANGED <<sessions, ids, app>>
    /\ UNCHANGED <<users, encryption_keys, now, chat, ctx, reg>>

\* terminate_session(self.current_session): the argument is the
\* (session_id, username) tuple create_session returned, and sqlite3 cannot
\* bind a tuple to the parameter of DELETE ... WHERE session_id=?
TerminateCurrent(ss, session) ==
    [exc |-> "sqlite3.Error", sessions |-> ss]

\* App.logout: the two assignments follow terminate_session
LogoutOutcome(ss, session, role) ==
    LET t == TerminateCurrent(ss, session) IN
    IF t.exc # NoExc
    THEN [exc |-> t.exc, sessions |-> t.sessions,
          current_session |-> session, current_user_role |-> role]
    ELSE [exc |-> NoExc, sessions |-> t.sessions,
          current_session |-> NoTuple, current_user_role |-> NONE]

App_logout(choice) ==
    LET o == LogoutOutcome(sessions, current_session, current_user_role) IN
    /\ Dispatch(choice) = "logout"
    /\ sessions' = o.sessions
    /\ current_session' = o.current_session
    /\ current_user_role' = o.current_user_role
    /\ last' = Call("handle_choice", <<choice>>, "logout", o.exc)
    /\ UNCHANGED <<users, encryption_keys, ids, now, chat, ctx, reg>>

\* App.exit_app: exit(0) raises SystemExit, after terminate_session when
\* logged in
ExitOutcome(ss, session) ==
    IF session # NoTuple
    THEN LET t == TerminateCurrent(ss, session) IN
         [exc |-> IF t.exc # NoExc THEN t.exc ELSE "SystemExit",
          sessions |-> t.sessions]
    ELSE [exc |-> "SystemExit", sessions |-> ss]

App_exit_app(choice) ==
    LET o == ExitOutcome(sessions, current_session) IN
    /\ Dispatch(choice) = "exit_app"
    /\ sessions' = o.sessions
    /\ last' = Call("handle_choice", <<choice>>, "exit_app", o.exc)
    /\ UNCHANGED <<users, encryption_keys, ids, now, app, chat, ctx, reg>>

\* ChatSession(decrypted_full_name): ChatSession.__init__ takes username
\* and full_name, so the call raises TypeError
StartChat == "TypeError"

\* choice 's': the users row of current_session[1], RegiDatabase.decrypt_data
\* and App.start_chat
StartChatExc(us, keys, session) ==
    IF session[2] \in DOMAIN us
    THEN IF fetch_encrypted_user_key(keys, session[2]) = NoToken
         THEN "ValueError"
         ELSE StartChat
    ELSE NoExc

App_start_chat(choice) ==
    /\ Dispatch(choice) = "start_chat"
    /\ last' = Call("handle_choice", <<choice>>, "start_chat",
                    StartChatExc(users, encryption_keys, current_session))
    /\ UNCHANGED <<db, now, app, chat, ctx, reg>>

\* SELECT COUNT(*) FROM users WHERE role = 'admin'
TotalAdmins(us) == Cardinality({u \in DOMAIN us : us[u].role = "admin"})

\* whether App.delete_user goes on to UserManager.delete_user
DeleteAllowed(us, username, confirm) ==
    /\ username \in DOMAIN us
    /\ ~(us[username].role = "admin" /\ TotalAdmins(us) <= 1)
    /\ confirm = "y"

App_delete_user(choice, username, confirm) ==
    /\ Dispatch(choice) = "delete_user"
    /\ IF DeleteAllowed(users, username, confirm)
       THEN /\ sessions' = DeleteSessionsOf(sessions, username)
            /\ users' = DeleteUserRow(users, username)
            /\ encryption_keys' = KeysAfterDelete(encryption_keys, username)
       ELSE UNCHANGED <<users, encryption_keys, sessions>>
    /\ last' = Call("handle_choice", <<choice, username>>, "delete_user", NoExc)
    /\ UNCHANGED <<ids, now, app, chat, ctx, reg>>

\* App.admin_add_user: the role is asked for until it is one of ROLES
App_admin_add_user(choice, username, person, role) ==
    \E fresh \in FreshKeys :
      LET o == RegisterOutcome(users, encryption_keys, username, default_password,
                               person.full_name, person.email, role, fresh) IN
      /\ Dispatch(choice) = "admin_add_user"
      /\ role \in ROLES
      /\ users' = o.users
      /\ encryption_keys' = o.keys
      /\ last' = Call("handle_choice", <<choice, username>>, "admin_add_user", o.exc)
      /\ UNCHANGED <<sessions, ids, now, app, chat, ctx, reg>>

\* App.modify_user_role: the role is asked for until it is one of ROLES
App_modify_user_role(choice, username, new_role) ==
    /\ Dispatch(choice) = "modify_user_role"
    /\ new_role \in ROLES
    /\ users' = SetRole(users, username, new_role)
    /\ last' = Call("handle_choice", <<choice, username>>, "modify_user_role", NoExc)
    /\ UNCHANGED <<encryption_keys, sessions, ids, now, app, chat, ctx, reg>>

\* self.current_session.username: current_session is a tuple, which has no
\* attribute username
SessionUsername == "AttributeError"

App_change_password(choice) ==
    /\ Dispatch(choice) = "change_password"
    /\ last' = Call("handle_choice", <<choice>>, "change_password", SessionUsername)
    /\ UNCHANGED <<db, now, app, chat, ctx, reg>>

App_invalid(choice) ==
    /\ Dispatch(choice) = "invalid"
    /\ last' = Call("handle_choice", <<choice>>, "invalid", NoExc)
    /\ UNCHANGED <<db, now, app, chat, ctx, reg>>

\* App.handle_choice
handle_choice(choice) ==
    \/ \E u \in Usernames, p \in Passwords, q \in People : App_register(choice, u, p, q)
    \/ \E u \in Usernames, p \in Passwords : App_login(choice, u, p)
    \/ App_logout(choice)
    \/ App_exit_app(choice)
    \/ App_start_chat(choice)
    \/ \E u \in Usernames, c \in Confirms : App_delete_user(choice, u, c)
    \/ \E u \in Usernames, q \in People, r \in ROLES : App_admin_add_user(choice, u, q, r)
    \/ \E u \in Usernames, r \in ROLES : App_modify_user_role(choice, u, r)
    \/ App_change_password(choice)
    \/ App_invalid(choice)

\* an exception that leaves handle_choice leaves main_menu and ends the
\* process; the program is started again on the same file
Restart ==
    /\ last.op = "handle_choice"
    /\ last.exc # NoExc
    /\ current_session' = NoTuple
    /\ current_user_role' = NONE
    /\ last' = Call("App", <<>>, NONE, NoExc)
    /\ UNCHANGED <<db, now, chat, ctx, reg>>

(* -------------------------------- clock -------------------------------- *)
\* the instants at which the clock is read: the first and the last tick of
\* the first second, and the ticks around one session duration later
Times == {0, TicksPerSecond - 1} \cup ((SessionTicks - 1)..MaxNow)

\* time passes between calls, up to one of the instants of T
Pass(T) ==
    /\ \E t \in T :
         /\ t > now
         /\ now' = t
    /\ UNCHANGED <<db, app, last, chat, ctx, reg>>

Tick == Pass(Times)

\* the clock of the menu: a user acts within the first second, or comes
\* back after the session's duration
MenuTimes == {0, TicksPerSecond - 1, MaxNow}
MenuTick == Pass(MenuTimes)

(* ------------------------- chat_db: the cipher -------------------------- *)
\* the distance encrypt and decrypt move a code point
Shift == 3
\* sys.maxunicode: chr accepts 0..MaxCodePoint and raises ValueError outside
MaxCodePoint == 1114111

\* Python values: a str is the sequence of its code points
Str(s) == [type |-> "str", v |-> s]
PyNone == [type |-> "NoneType", v |-> <<>>]
PyInt(n) == [type |-> "int", v |-> <<n>>]

\* bool(x)
Truthy(x) ==
    CASE x.type = "str" -> x.v # <<>>
      [] x.type = "int" -> x.v # <<0>>
      [] OTHER -> FALSE

\* chr(i) returns
chrOk(i) == i \in 0..MaxCodePoint

\* every character moved by d code points
Shifted(s, d) == [i \in 1..Len(s) |-> s[i] + d]

\* an encrypt that wraps inside the ASCII range
encrypt_wrap(message) ==
    IF message.type # "str"
    THEN [exc |-> "TypeError", ret |-> PyNone]
    ELSE [exc |-> NoExc,
          ret |-> Str([i \in 1..Len(message.v) |-> (message.v[i] + Shift) % 128])]

\* encrypt(message): len(message) raises TypeError for a value without a
\* length, chr raises ValueError past MaxCodePoint, and both leave encrypt
encrypt(message) ==
    IF message.type # "str"
    THEN [exc |-> "TypeError", ret |-> PyNone]
    ELSE IF \A i \in 1..Len(message.v) : chrOk(message.v[i] + Shift)
         THEN [exc |-> NoExc, ret |-> Str(Shifted(message.v, Shift))]
         ELSE [exc |-> "ValueError", ret |-> PyNone]

\* a decrypt that rejects the values it cannot decrypt
decrypt_strict(encrypted_message) ==
    IF ~Truthy(encrypted_message) \/ encrypted_message.type # "str"
    THEN [exc |-> "ValueError", ret |-> PyNone]
    ELSE IF \A i \in 1..Len(encrypted_message.v) :
                chrOk(encrypted_message.v[i] - Shift)
         THEN [exc |-> NoExc, ret |-> Str(Shifted(encrypted_message.v, 0 - Shift))]
         ELSE [exc |-> "ValueError", ret |-> PyNone]

\* decrypt(encrypted_message)
decrypt(encrypted_message) ==
    IF ~Truthy(encrypted_message) \/ encrypted_message.type # "str"
    THEN [exc |-> NoExc, ret |-> Str(<<>>)]
    ELSE IF \A i \in 1..Len(encrypted_message.v) :
                chrOk(encrypted_message.v[i] - Shift)
         THEN [exc |-> NoExc, ret |-> Str(Shifted(encrypted_message.v, 0 - Shift))]
         ELSE [exc |-> "ValueError", ret |-> PyNone]

\* the code points strings are made of: a control character, the lowest
\* code point str.isprintable accepts, a letter, the highest code point it
\* accepts, and chr(sys.maxunicode)
CodePoints == {2, 32, 65, 126, 917999, MaxCodePoint}
Printable == {32, 65, 126, 917999}
Strings == UNION {[1..n -> CodePoints] : n \in 0..MaxLen}
Values == {Str(s) : s \in Strings} \cup {PyNone, PyInt(0), PyInt(5)}

\* encrypt(text) and decrypt(text), called from outside the class
call_encrypt ==
    /\ last' = Call("encrypt", <<text>>, encrypt(text).ret, encrypt(text).exc)
    /\ UNCHANGED <<db, now, app, chat, ctx, reg>>

call_decrypt ==
    /\ last' = Call("decrypt", <<text>>, decrypt(text).ret, decrypt(text).exc)
    /\ UNCHANGED <<db, now, app, chat, ctx, reg>>

(* ------------------------ chat_db: ChatDatabase ------------------------- *)
\* what the callers send: (message, response) pairs
Hi == <<72, 105>>
Ok == <<79, 107>>
Top == <<MaxCodePoint>>
Exchanges == {<<Hi, Ok>>, <<Top, Ok>>}
ChatUsernames == Usernames \cup {""}
ChatRole == "user"
\* the n handed to get_last_n_messages
Limits == (0 - 1)..(MaxRows + 1)

open_connection ==
    /\ conn' = TRUE
    /\ last' = Call("open_connection", <<>>, NONE, NoExc)
    /\ UNCHANGED <<db, now, app, chat_sessions, text, ctx, reg>>

close_connection ==
    /\ conn' = FALSE
    /\ last' = Call("close_connection", <<>>, NONE, NoExc)
    /\ UNCHANGED <<db, now, app, chat_sessions, text, ctx, reg>>

ChatRow(username, message, role, encrypted, response, response_encrypted) ==
    [username |-> username, message |-> message, role |-> role,
     encrypted |-> encrypted, response |-> response,
     response_encrypted |-> response_encrypted]

\* the table insert_message leaves: nothing is written without a connection,
\* and an exception of encrypt is caught and logged before the INSERT
InsertEffect(rows, open, username, message, role, response, encrypt_message) ==
    IF ~open THEN rows
    ELSE IF encrypt_message
         THEN IF encrypt(Str(message)).exc # NoExc \/ encrypt(Str(response)).exc # NoExc
              THEN rows
              ELSE Append(rows, ChatRow(username, encrypt(Str(message)).ret.v, role,
                                        TRUE, encrypt(Str(response)).ret.v, TRUE))
         ELSE Append(rows, ChatRow(username, message, role, FALSE, response, FALSE))

insert_message(username, message, role, response, encrypt_message) ==
    /\ Len(chat_sessions) < MaxRows
    /\ chat_sessions' = InsertEffect(chat_sessions, conn, username, message, role,
                                     response, encrypt_message)
    /\ last' = Call("insert_message",
                    <<username, message, role, response, encrypt_message>>,
                    NONE, NoExc)
    /\ UNCHANGED <<db, now, app, conn, text, ctx, reg>>

\* SELECT ... FROM chat_sessions WHERE username = ?
SelectUser(rows, username) == SelectSeq(rows, LAMBDA r : r.username = username)

\* ORDER BY id ASC
Reversed_asc(rows) == rows

\* ORDER BY id DESC
Reversed(rows) == [i \in 1..Len(rows) |-> rows[Len(rows) + 1 - i]]

\* LIMIT ?: SQLite reads a negative limit as no limit
Limit(rows, n) ==
    IF n < 0 THEN rows
    ELSE IF n < Len(rows) THEN SubSeq(rows, 1, n) ELSE rows

\* decrypt(message) if encrypted else message
Shown(flag, stored) ==
    IF flag THEN decrypt(Str(stored)) ELSE [exc |-> NoExc, ret |-> Str(stored)]

\* the decrypt calls of a result list that raise
DecryptExc(rows) ==
    IF \E i \in 1..Len(rows) :
          \/ Shown(rows[i].encrypted, rows[i].message).exc # NoExc
          \/ Shown(rows[i].response_encrypted, rows[i].response).exc # NoExc
    THEN "ValueError" ELSE NoExc

\* whether building the tuple of a row raises
RowRaises(r) ==
    \/ Shown(r.encrypted, r.message).exc # NoExc
    \/ Shown(r.response_encrypted, r.response).exc # NoExc

\* the texts decrypt is called with while the tuple of a row is built
RowCalls(r) ==
    (IF r.encrypted THEN {r.message} ELSE {})
    \cup (IF r.response_encrypted /\ Shown(r.encrypted, r.message).exc = NoExc
          THEN {r.response} ELSE {})

\* the texts decrypt is called with while the result list is built: the
\* comprehension stops at the first call that raises
DecryptCalls(rows) ==
    UNION {RowCalls(rows[i]) :
             i \in {j \in 1..Len(rows) : \A k \in 1..(j - 1) : ~RowRaises(rows[k])}}

\* the tuples get_messages builds
Decrypted4(rows) ==
    [i \in 1..Len(rows) |->
       <<Shown(rows[i].encrypted, rows[i].message).ret.v, rows[i].role,
         Shown(rows[i].response_encrypted, rows[i].response).ret.v, "assistant">>]

\* the tuples get_last_n_messages builds
Decrypted3(rows) ==
    [i \in 1..Len(rows) |->
       <<Shown(rows[i].encrypted, rows[i].message).ret.v, rows[i].role,
         Shown(rows[i].response_encrypted, rows[i].response).ret.v>>]

GetMessagesResult(rows, open, username) ==
    IF ~open THEN [exc |-> NoExc, ret |-> <<>>]
    ELSE IF DecryptExc(SelectUser(rows, username)) # NoExc
         THEN [exc |-> DecryptExc(SelectUser(rows, username)), ret |-> <<>>]
         ELSE [exc |-> NoExc, ret |-> Decrypted4(SelectUser(rows, username))]

get_messages(username) ==
    /\ last' = Call("get_messages", <<username>>,
                    GetMessagesResult(chat_sessions, conn, username).ret,
                    GetMessagesResult(chat_sessions, conn, username).exc)
    /\ decrypt_calls' = IF conn THEN DecryptCalls(SelectUser(chat_sessions, username))
                        ELSE {}
    /\ UNCHANGED <<db, now, app, chat, custom_context, reg>>

GetLastNResult(rows, n, username) ==
    IF DecryptExc(Limit(Reversed(SelectUser(rows, username)), n)) # NoExc
    THEN [exc |-> DecryptExc(Limit(Reversed(SelectUser(rows, username)), n)),
          ret |-> <<>>]
    ELSE [exc |-> NoExc,
          ret |-> Decrypted3(Limit(Reversed(SelectUser(rows, username)), n))]

\* get_last_n_messages opens the connection when none is held
get_last_n_messages(n, username) ==
    /\ conn' = TRUE
    /\ last' = Call("get_last_n_messages", <<n, username>>,
                    GetLastNResult(chat_sessions, n, username).ret,
                    GetLastNResult(chat_sessions, n, username).exc)
    /\ decrypt_calls' = DecryptCalls(Limit(Reversed(SelectUser(chat_sessions, username)), n))
    /\ UNCHANGED <<db, now, app, chat_sessions, text, custom_context, reg>>

(* ---------------------- chat_utils: ContextManager ---------------------- *)
\* how many characters the model lets custom_context grow by
MaxContext == 2

\* self.custom_context += f" {custom_context}"
add_custom_context(context, custom) == context \o <<32>> \o custom

\* [decrypt(message[0]) for message in last_n_messages]: chat_utils imports
\* ChatDatabase only, so the name decrypt is not bound, and the call written
\* for the first tuple raises NameError; an empty list has no first tuple
ContextDecrypt(last_n_messages) ==
    IF last_n_messages = <<>>
    THEN [exc |-> NoExc, calls |-> {}, joined |-> <<>>]
    ELSE [exc |-> "NameError", calls |-> {last_n_messages[1][1]}, joined |-> <<>>]

\* ContextManager.add_last_n_messages_context, on the ChatDatabase the
\* ContextManager holds as self.db: every exception is caught and logged
add_last_n_messages_context(n, username) ==
    LET r == GetLastNResult(chat_sessions, n, username)
        read == DecryptCalls(Limit(Reversed(SelectUser(chat_sessions, username)), n))
    IN
    /\ conn' = TRUE
    /\ IF r.exc # NoExc
       THEN /\ decrypt_calls' = read
            /\ UNCHANGED custom_context
       ELSE /\ decrypt_calls' = read \cup ContextDecrypt(r.ret).calls
            /\ IF ContextDecrypt(r.ret).exc # NoExc
               THEN UNCHANGED custom_context
               ELSE /\ Len(custom_context) < MaxContext
                    /\ custom_context' =
                         add_custom_context(custom_context, ContextDecrypt(r.ret).joined)
    /\ last' = Call("add_last_n_messages_context", <<n, username>>, NONE, NoExc)
    /\ UNCHANGED <<db, now, app, chat_sessions, text, reg>>

(* ------------------ UserManager: register_user, by steps ---------------- *)
\* the callers that may be inside register_user at the same time
Callers == {1, 2}

\* a caller that is not inside register_user
Idle == [pc |-> "idle"]

\* a caller enters register_user
reg_call(c, username, password, person, role) ==
    /\ reg[c].pc \in {"idle", "done"}
    /\ reg' = [reg EXCEPT ![c] = [pc |-> "check", username |-> username,
                                  password |-> password, person |-> person,
                                  role |-> role]]
    /\ UNCHANGED <<db, now, app, last, chat, ctx>>

\* the caller is back from register_user
Returned(c, ret, exc) ==
    [pc |-> "done", username |-> reg[c].username, role |-> reg[c].role,
     ret |-> ret, exc |-> exc]

\* the next step of a caller inside register_user: the role check and the
\* key generation, then INSERT INTO users with its commit, then
\* store_encrypted_user_key on a connection of its own
reg_step(c) ==
    /\ reg[c].pc \in {"check", "insert", "store"}
    /\ \E fresh \in FreshKeys :
         LET k == generate_user_key(fresh)
             o == IF reg[c].pc = "check"
                  THEN IF reg[c].role \notin ROLES
                       THEN [to |-> Returned(c, NONE, "ValueError"),
                             users |-> users, keys |-> encryption_keys]
                       ELSE IF k.exc # NoExc
                       THEN [to |-> Returned(c, NONE, k.exc),
                             users |-> users, keys |-> encryption_keys]
                       ELSE [to |-> [pc |-> "insert", username |-> reg[c].username,
                                     password |-> reg[c].password,
                                     person |-> reg[c].person,
                                     role |-> reg[c].role, user_key |-> k.key],
                             users |-> users, keys |-> encryption_keys]
                  ELSE IF reg[c].pc = "insert"
                  THEN IF reg[c].username \in DOMAIN users
                       THEN [to |-> Returned(c, FALSE, NoExc),
                             users |-> users, keys |-> encryption_keys]
                       ELSE [to |-> [reg[c] EXCEPT !.pc = "store"],
                             users |-> [u \in DOMAIN users \cup {reg[c].username} |->
                                          IF u = reg[c].username
                                          THEN UserRow(reg[c].password,
                                                       reg[c].person.full_name,
                                                       reg[c].person.email,
                                                       reg[c].role, reg[c].user_key)
                                          ELSE users[u]],
                             keys |-> encryption_keys]
                  ELSE [to |-> Returned(c, TRUE, NoExc),
                        users |-> users,
                        keys |-> store_encrypted_user_key(
                                   encryption_keys, reg[c].username,
                                   encrypt_user_key(reg[c].user_key, KEY))]
         IN
         /\ reg' = [reg EXCEPT ![c] = o.to]
         /\ users' = o.users
         /\ encryption_keys' = o.keys
         /\ last' = IF o.to.pc = "done"
                    THEN Call("register_user", <<reg[c].username, reg[c].role>>,
                              o.to.ret, o.to.exc)
                    ELSE last
    /\ UNCHANGED <<sessions, ids, now, app, chat, ctx>>

(* ------------------------------- start --------------------------------- *)
\* the PII the stored rows were registered with
PersonOf(u) == CHOOSE q \in People : (q.full_name = "Alice B Smith") <=> (u = "alice")

\* the rows a completed registration of the usernames in S left in the file
StoredUsers(S, pw, role) ==
    [u \in S |-> UserRow(pw[u], PersonOf(u).full_name, PersonOf(u).email,
                         role[u], StoredKeyOf(u))]
StoredKeys(S) == [u \in S |-> encrypt_user_key(StoredKeyOf(u), KEY)]

\* a fresh process on the file: no session issued in this run, nobody
\* logged in
InitRun ==
    /\ sessions = <<>>
    /\ uuids = 0
    /\ issued = <<>>
    /\ now = 0
    /\ current_session = NoTuple
    /\ current_user_role = NONE
    /\ last = Call("init", <<>>, NONE, NoExc)
    /\ conn = FALSE
    /\ chat_sessions = <<>>
    /\ text = Str(<<>>)
    /\ custom_context = <<>>
    /\ decrypt_calls = {}
    /\ reg = [c \in Callers |-> Idle]

\* the file holds the rows of any set of registered users
Init ==
    /\ \E S \in SUBSET Usernames :
       \E pw \in [S -> Passwords], role \in [S -> ROLES] :
         /\ users = StoredUsers(S, pw, role)
         /\ encryption_keys = StoredKeys(S)
    /\ InitRun

\* the same, every stored user still having the password pw1
InitApp ==
    /\ \E S \in SUBSET Usernames, role \in [Usernames -> ROLES] :
         /\ users = StoredUsers(S, [u \in Usernames |-> "pw1"], role)
         /\ encryption_keys = StoredKeys(S)
    /\ InitRun

\* the master key of an earlier .env: when ENCRYPTION_KEY is missing the
\* module generates a new one, while users.db keeps the rows wrapped under
\* the old one
FormerKEY == "MK0"
MasterKeys == {KEY, FormerKEY}

\* the file holds registered users, some key records wrapped under FormerKEY
InitRekeyed ==
    /\ \E S \in SUBSET Usernames :
       \E role \in [S -> ROLES], wrap \in [S -> MasterKeys] :
         /\ users = StoredUsers(S, [u \in S |-> "pw1"], role)
         /\ encryption_keys = [u \in S |-> encrypt_user_key(StoredKeyOf(u), wrap[u])]
    /\ InitRun

\* the file of a first run: no user registered
InitEmpty ==
    /\ users = <<>>
    /\ encryption_keys = <<>>
    /\ InitRun

(* ----------------- UserManager and SessionManager as a library --------- *)
UserManagerStep ==
    \/ \E u \in Usernames, p \in Passwords, q \in People, r \in RoleInputs :
          register_user(u, p, q.full_name, q.email, r)
    \/ \E u \in Usernames, q \in People, r \in RoleInputs :
          add_user_by_admin(u, q.full_name, q.email, r)
    \/ \E u \in Usernames, p \in Passwords : authenticate_user(u, p)
    \/ \E u \in Usernames, r \in RoleInputs : set_user_role(u, r)
    \/ \E u \in Usernames : delete_user(u)
    \/ \E u \in Usernames, p \in Passwords : reset_password(u, p)

SessionManagerStep ==
    \/ \E u \in Usernames, r \in ROLES : create_session(u, r)
    \/ \E s \in SessionIds : validate_session(s)
    \/ \E s \in SessionIds : terminate_session(s)

NextUsers == UserManagerStep
SpecUsers == Init /\ [][NextUsers]_vars

NextApp == (\E c \in Choices : handle_choice(c)) \/ Restart \/ MenuTick
SpecApp == InitApp /\ [][NextApp]_vars

NextSessions == SessionManagerStep \/ Tick
SpecSessions == InitEmpty /\ [][NextSessions]_vars

\* sessions and the one UserManager method that writes them
NextDelete == SessionManagerStep \/ (\E u \in Usernames : delete_user(u))
SpecDelete == InitApp /\ [][NextDelete]_vars

\* sessions, the coarse clock, and role changes made after a session exists
NextRoles ==
    \/ SessionManagerStep
    \/ \E u \in Usernames, r \in ROLES : set_user_role(u, r)
    \/ MenuTick
SpecRoles == InitApp /\ [][NextRoles]_vars

\* the cipher functions, applied to one value
InitCipher ==
    /\ users = <<>>
    /\ encryption_keys = <<>>
    /\ sessions = <<>>
    /\ uuids = 0
    /\ issued = <<>>
    /\ now = 0
    /\ current_session = NoTuple
    /\ current_user_role = NONE
    /\ last = Call("init", <<>>, NONE, NoExc)
    /\ conn = FALSE
    /\ chat_sessions = <<>>
    /\ text \in Values
    /\ custom_context = <<>>
    /\ decrypt_calls = {}
    /\ reg = [c \in Callers |-> Idle]
NextCipher == call_encrypt \/ call_decrypt
SpecCipher == InitCipher /\ [][NextCipher]_vars

\* one ChatDatabase object on DB/chat.db
NextChat ==
    \/ open_connection
    \/ close_connection
    \/ \E u \in ChatUsernames, x \in Exchanges, e \in BOOLEAN :
          insert_message(u, x[1], ChatRole, x[2], e)
    \/ \E u \in ChatUsernames : get_messages(u)
    \/ \E n \in Limits, u \in ChatUsernames : get_last_n_messages(n, u)
SpecChat == InitEmpty /\ [][NextChat]_vars

\* the numbers of messages the context is built from: none, the last one,
\* and as many as the table holds
ContextLimits == {0, 1, MaxRows}

\* a ContextManager and its ChatDatabase on DB/chat.db
NextContext ==
    \/ open_connection
    \/ close_connection
    \/ \E u \in Usernames, x \in Exchanges, e \in BOOLEAN :
          insert_message(u, x[1], ChatRole, x[2], e)
    \/ \E u \in Usernames : get_messages(u)
    \/ \E n \in ContextLimits, u \in Usernames : get_last_n_messages(n, u)
    \/ \E n \in ContextLimits, u \in Usernames : add_last_n_messages_context(n, u)
SpecContext == InitEmpty /\ [][NextContext]_vars

\* two callers of register_user on one users.db
NextRegister ==
    \/ \E c \in Callers, u \in Usernames, p \in Passwords, q \in People, r \in RoleInputs :
          reg_call(c, u, p, q, r)
    \/ \E c \in Callers : reg_step(c)
SpecRegister == InitEmpty /\ [][NextRegister]_vars

\* UserManager on a file whose key records may predate the master key
SpecRekeyed == InitRekeyed /\ [][NextUsers]_vars

(* ======================= properties of the users store ================= *)
Invalid == <<FALSE, NONE>>

\* C1: register_user of a username not yet registered, with a role of ROLES,
\* returns True, and authenticate_user(username, password) then returns
\* (full_name, role).
C1_RegisterThenAuthenticate ==
    [][\A u \in Usernames, p \in Passwords, q \in People, r \in ROLES :
         (register_user(u, p, q.full_name, q.email, r) /\ u \notin DOMAIN users)
         => IF last'.exc # NoExc THEN FALSE
            ELSE /\ last'.ret = TRUE
                 /\ AuthResult(users', encryption_keys', u, p) = <<q.full_name, r>>]_vars

\* C2: register_user of a username that is already registered returns False,
\* raises nothing, and leaves the users row and the encryption_keys row as
\* they were.
C2_DuplicateReturnsFalse ==
    [][\A u \in Usernames, p \in Passwords, q \in People, r \in ROLES :
         (register_user(u, p, q.full_name, q.email, r) /\ u \in DOMAIN users)
         => IF last'.exc # NoExc THEN FALSE
            ELSE /\ last'.ret = FALSE
                 /\ users' = users
                 /\ encryption_keys' = encryption_keys]_vars

\* C4: authenticate_user of a registered user with a password other than the
\* stored one returns None and raises nothing.
C4_WrongPasswordReturnsNone ==
    (/\ last.op = "authenticate_user"
     /\ last.a[1] \in DOMAIN users
     /\ users[last.a[1]].password.pw # last.a[2])
    => (last.ret = NoTuple /\ last.exc = NoExc)

C4_Witness ==
    /\ last.op = "authenticate_user"
    /\ last.a[1] \in DOMAIN users
    /\ last.a[1] \in DOMAIN encryption_keys
    /\ users[last.a[1]].password.pw # last.a[2]
    /\ last.ret = NoTuple

\* C9: after delete_user(U) no sessions row names U, every session id ever
\* created for U validates as invalid, and the rows of other users' sessions
\* are as they were.
C9_DeleteUserRemovesSessions ==
    [][\A U \in Usernames :
         delete_user(U)
         => /\ \A s \in DOMAIN sessions' : sessions'[s].username # U
            /\ \A s \in DOMAIN issued :
                 issued[s].username = U => ValidateResult(sessions', s, now') = Invalid
            /\ \A s \in DOMAIN sessions :
                 sessions[s].username # U
                 => (s \in DOMAIN sessions' /\ sessions'[s] = sessions[s])]_vars

\* two sessions were created for the deleted user, and neither row is left
C9_Witness ==
    /\ last.op = "delete_user"
    /\ Cardinality({s \in DOMAIN issued : issued[s].username = last.a[1]}) >= 2
    /\ \A s \in DOMAIN sessions : sessions[s].username # last.a[1]

\* C10: the usernames of encryption_keys are exactly the usernames of users.
C10_OneKeyRecordPerUser == DOMAIN encryption_keys = DOMAIN users

(* ========================= properties of sessions ====================== *)
\* C6: a session created at time t is reported valid by validate_session at
\* every time before t + SESSION_DURATION and invalid at every time after it.
C6_ValidUntilDuration ==
    [][\A s \in SessionIds :
         (validate_session(s) /\ s \in DOMAIN sessions)
         => /\ (now < issued[s].at + SessionTicks => last'.ret[1] = TRUE)
            /\ (now > issued[s].at + SessionTicks => last'.ret[1] = FALSE)]_vars

\* C7: validate_session of a session whose expiration has passed deletes its
\* row and returns (False, None); validate_session of an id whose row is gone
\* returns (False, None) and changes no row; a deleted row does not come back.
C7_ExpiredIsDeletedOnce ==
    [][\A s \in SessionIds :
         /\ (validate_session(s) /\ s \in DOMAIN sessions
               /\ now > strptime(sessions[s].expiration))
            => (s \notin DOMAIN sessions' /\ last'.ret = Invalid)
         /\ (validate_session(s) /\ s \in DOMAIN issued /\ s \notin DOMAIN sessions)
            => (last'.ret = Invalid /\ sessions' = sessions)
         /\ (s \in DOMAIN issued /\ s \notin DOMAIN sessions)
            => s \notin DOMAIN sessions']_vars

\* an expired session was validated: its row is gone while another session's
\* row is still there
C7_Witness ==
    /\ last.op = "validate_session"
    /\ last.ret = Invalid
    /\ last.a[1] \in DOMAIN issued
    /\ now > issued[last.a[1]].at + SessionTicks
    /\ last.a[1] \notin DOMAIN sessions
    /\ sessions # <<>>

\* C11: for a session whose row exists and whose expiration has not passed,
\* validate_session returns (True, r) with r the role given to
\* create_session, whatever set_user_role did to the user since.
C11_RoleFixedAtCreation ==
    [][\A s \in SessionIds :
         (/\ validate_session(s)
          /\ s \in DOMAIN sessions
          /\ now <= strptime(sessions[s].expiration))
         => last'.ret = <<TRUE, issued[s].role>>]_vars

\* a live session was validated after the role of its user was changed
C11_Witness ==
    /\ last.op = "validate_session"
    /\ last.a[1] \in DOMAIN sessions
    /\ last.ret = <<TRUE, issued[last.a[1]].role>>
    /\ issued[last.a[1]].username \in DOMAIN users
    /\ users[issued[last.a[1]].username].role # issued[last.a[1]].role

\* C12: terminate_session of an id that has no row raises nothing and leaves
\* the sessions table as it was; terminate_session of an id that has a row
\* removes that row only, so a second call changes nothing more.
C12_TerminateIdempotent ==
    [][\A s \in SessionIds :
         terminate_session(s)
         => /\ last'.exc = NoExc
            /\ (s \notin DOMAIN sessions => sessions' = sessions)
            /\ s \notin DOMAIN sessions'
            /\ \A t \in DOMAIN sessions \ {s} :
                 t \in DOMAIN sessions' /\ sessions'[t] = sessions[t]]_vars

\* terminate_session was called for an id whose row an earlier call removed
C12_Witness ==
    /\ last.op = "terminate_session"
    /\ last.exc = NoExc
    /\ last.a[1] \in DOMAIN issued
    /\ last.a[1] \notin DOMAIN sessions
    /\ sessions # <<>>

(* ======================== properties of chat_db ======================== *)
\* what get_messages shows for an exchange stored under the role ChatRole
Tuple4(x) == <<x[1], ChatRole, x[2], "assistant">>

\* C13: on an open ChatDatabase, insert_message with encryption followed by
\* get_messages of the same username returns the plaintext message and
\* response of the inserted row, not their shifted form.
C13_EncryptedInsertReadsBackPlain ==
    [][\A u \in ChatUsernames, x \in Exchanges :
         (insert_message(u, x[1], ChatRole, x[2], TRUE) /\ conn)
         => LET got == GetMessagesResult(chat_sessions', conn', u) IN
            /\ got.exc = NoExc
            /\ Len(got.ret) = Len(SelectUser(chat_sessions, u)) + 1
            /\ got.ret[Len(got.ret)] = Tuple4(x)]_vars

\* C14: a ChatDatabase holds a valid connection from its construction on, so
\* insert_message for a username without rows, followed by get_messages,
\* returns a list whose first entry carries the message, role and response.
C14_UsableWithoutOpen ==
    [][\A u \in Usernames, e \in BOOLEAN :
         (/\ insert_message(u, Hi, ChatRole, Ok, e)
          /\ SelectUser(chat_sessions, u) = <<>>)
         => LET got == GetMessagesResult(chat_sessions', conn', u) IN
            /\ conn'
            /\ got.ret # <<>>
            /\ got.ret[1] = Tuple4(<<Hi, Ok>>)]_vars

\* C15: get_last_n_messages(n, username) returns the empty list for every
\* n <= 0, and for every n above the number of stored rows of the user it
\* returns all of them without an error.
C15_LastNAtTheEdges ==
    last.op = "get_last_n_messages"
    => LET n == last.a[1]
           k == Len(SelectUser(chat_sessions, last.a[2]))
       IN /\ (n <= 0 => last.ret = <<>>)
          /\ (n > k => (last.exc = NoExc /\ Len(last.ret) = k))

\* the tuple get_last_n_messages shows for a stored row
Tuple3(row) ==
    <<IF row.encrypted THEN Shifted(row.message, 0 - Shift) ELSE row.message,
      row.role,
      IF row.response_encrypted THEN Shifted(row.response, 0 - Shift) ELSE row.response>>

C17_AllRowsInInsertionOrder ==
    last.op = "get_messages"
    => LET mine == SelectSeq(chat_sessions, LAMBDA r : r.username = last.a[1]) IN
       /\ last.exc = NoExc
       /\ Len(last.ret) = Len(mine)
       /\ \A j \in 1..Len(mine) :
            last.ret[j] = <<Tuple3(mine[j])[1], mine[j].role,
                            Tuple3(mine[j])[3], "assistant">>

\* every character of a str is one str.isprintable accepts
IsPrintable(x) == x.type = "str" /\ \A i \in 1..Len(x.v) : x.v[i] \in Printable

\* C18: for a string x of printable characters encrypt moves every code
\* point up by 3 and decrypt moves it down by 3, decrypt(encrypt(x)) = x and
\* encrypt(decrypt(x)) = x.
C18_CipherRoundTrip ==
    IsPrintable(text)
    => /\ last.op = "encrypt"
          => /\ last.exc = NoExc
             /\ \A i \in 1..Len(text.v) : last.ret.v[i] = text.v[i] + 3
             /\ decrypt(last.ret) = [exc |-> NoExc, ret |-> text]
       /\ last.op = "decrypt"
          => /\ last.exc = NoExc
             /\ \A i \in 1..Len(text.v) : last.ret.v[i] = text.v[i] - 3
             /\ encrypt(last.ret) = [exc |-> NoExc, ret |-> text]

\* encrypt was applied to a string that holds the highest printable code point
C18_Witness ==
    /\ last.op = "encrypt"
    /\ IsPrintable(text)
    /\ Len(text.v) >= 2
    /\ \E i \in 1..Len(text.v) : text.v[i] = 917999
    /\ decrypt(last.ret).ret = text

C20_EmptyUsernameRejected ==
    [][/\ \A x \in Exchanges, e \in BOOLEAN :
            insert_message("", x[1], ChatRole, x[2], e)
            => (last'.exc = "ValueError" /\ chat_sessions' = chat_sessions)
       /\ get_messages("") => last'.exc = "ValueError"]_vars

(* ========================== properties of the App ====================== *)
\* the methods handle_choice reaches only with a session
Gated == {"start_chat", "change_password", "delete_user", "admin_add_user",
          "modify_user_role"}

\* C5: once the expiration of the current session has passed, handle_choice
\* runs none of the methods that need a logged-in user.
C5_NoActionAfterExpiry ==
    [][\A c \in Choices :
         (/\ handle_choice(c)
          /\ current_session # NoTuple
          /\ now > issued[current_session[1]].at + SessionTicks)
         => last'.ret \notin Gated]_vars

\* C8: after logout, or exit_app while logged in, the sessions table does not
\* hold the row of the session login created, and after logout
\* current_session is None.
C8_LogoutRemovesSession ==
    [][\A c \in Choices :
         (/\ handle_choice(c)
          /\ current_session # NoTuple
          /\ Dispatch(c) \in {"logout", "exit_app"})
         => /\ current_session[1] \notin DOMAIN sessions'
            /\ (Dispatch(c) = "logout" => current_session' = NoTuple)]_vars

(* ===================== further properties of users ===================== *)
\* C21: whatever register_user, add_user_by_admin, set_user_role,
\* reset_password and delete_user were called with, every users row has a
\* role of ROLES.
C21_RolesStayValid == \A u \in DOMAIN users : users[u].role \in ROLES

\* C22: when the key record of a user is present and cannot be unwrapped
\* with KEY, authenticate_user with the right password reports a failure
\* that is neither None nor a (full_name, role) tuple.
C22_CryptoFailureIsDistinct ==
    (/\ last.op = "authenticate_user"
     /\ last.a[1] \in DOMAIN users
     /\ checkpw(last.a[2], users[last.a[1]].password)
     /\ last.a[1] \in DOMAIN encryption_keys
     /\ ~FernetOk(encryption_keys[last.a[1]], KEY))
    => \/ last.exc # NoExc
       \/ (last.ret # NoTuple /\ Len(last.ret) # 2)

\* C29: after delete_user(u), register_user(u, p2, name2, email2, role2)
\* returns True, authenticate_user(u, p2) then returns (name2, role2), and
\* the key record of u is the one this registration generated, not the one
\* the deleted account left behind.
C29_ReRegisterAfterDelete ==
    [][\A u \in Usernames, p \in Passwords, q \in People, r \in ROLES :
         (/\ last.op = "delete_user"
          /\ last.a = <<u>>
          /\ register_user(u, p, q.full_name, q.email, r))
         => IF last'.exc # NoExc THEN FALSE
            ELSE /\ last'.ret = TRUE
                 /\ AuthResult(users', encryption_keys', u, p) = <<q.full_name, r>>
                 /\ u \in DOMAIN encryption_keys'
                 /\ \E fresh \in FreshKeys :
                      encryption_keys'[u] = encrypt_user_key(fresh, KEY)]_vars

(* ===================== further properties of the App ==================== *)
\* C24: a login that authenticate_user accepts completes without an
\* exception and appends one chat_sessions row of the username with role
\* 'system'.
C24_LoginIsLogged ==
    [][\A u \in Usernames, p \in Passwords :
         (/\ App_login("l", u, p)
          /\ AuthResult(users, encryption_keys, u, p) # NoTuple)
         => IF last'.exc # NoExc \/ Len(chat_sessions') # Len(chat_sessions) + 1
            THEN FALSE
            ELSE /\ chat_sessions'[Len(chat_sessions')].username = u
                 /\ chat_sessions'[Len(chat_sessions')].role = "system"]_vars

\* C26: no delete-user or modify-role menu action takes the users table from
\* at least one admin row to none.
C26_AnAdminRemains ==
    [][\A c \in Choices :
         (/\ handle_choice(c)
          /\ Dispatch(c) \in {"delete_user", "modify_user_role"}
          /\ TotalAdmins(users) >= 1)
         => TotalAdmins(users') >= 1]_vars

\* the methods of the admin menu
AdminActions == {"delete_user", "admin_add_user", "modify_user_role"}

\* C27: handle_choice runs an admin action only while a session is current
\* and current_user_role is 'admin'.
\* (a step of handle_choice is a step that records a handle_choice call and
\* leaves the clock alone)
C27_AdminActionsNeedAdmin ==
    [][(/\ last'.op = "handle_choice"
        /\ now' = now
        /\ last'.ret \in AdminActions)
       => (current_session # NoTuple /\ current_user_role = "admin")]_vars

\* an admin has deleted a user through the menu
C27_Witness ==
    /\ last.op = "handle_choice"
    /\ last.ret = "delete_user"
    /\ last.a[2] \notin DOMAIN users
    /\ last.a[2] \in DOMAIN encryption_keys
    /\ current_session # NoTuple
    /\ current_user_role = "admin"

\* C28: while current_session is set, the sessions table holds its row and
\* the users table holds the user it names.
C28_CurrentSessionIsBacked ==
    current_session # NoTuple
    => (/\ current_session[1] \in DOMAIN sessions
        /\ current_session[2] \in DOMAIN users)

\* C30: for a logged-in user of either role the choice 'p' of the menu runs
\* change_password.
C30_ChangePasswordReachable ==
    [][(handle_choice("p") /\ current_session # NoTuple)
       => last'.ret = "change_password"]_vars

C25_OneRegistrationWins ==
    (/\ reg[1].pc = "done"
     /\ reg[2].pc = "done"
     /\ reg[1].username = reg[2].username
     /\ reg[1].role \in ROLES
     /\ reg[2].role \in ROLES)
    => IF reg[1].exc # NoExc \/ reg[2].exc # NoExc THEN FALSE
       ELSE /\ reg[1].ret # reg[2].ret
            /\ reg[1].username \in DOMAIN users
            /\ reg[1].username \in DOMAIN encryption_keys
            /\ FernetOk(encryption_keys[reg[1].username], KEY)
            /\ users[reg[1].username].encrypted_full_name.key
                 = encryption_keys[reg[1].username].pt

====
